---- MODULE Spec2Model ----
(***************************************************************************)
(* Trip Assistant agent: the classification-and-routing pipeline.          *)
(*                                                                         *)
(*   START -> inject_documents -> classifier -> [specialist] -> END        *)
(*                                                                         *)
(* Texts (questions, documents, prompts, answers, error messages) are      *)
(* sequences of string tokens; Python's "" is the empty sequence.  File    *)
(* names, document keys, categories and node names are plain strings.      *)
(* A confidence is kept in hundredths: 0.0 is 0 and 1.0 is 100.            *)
(* A state dictionary is a function from the keys that are set.            *)
(***************************************************************************)
EXTENDS Integers, Sequences, FiniteSets, TLC

VARIABLES
    _documents,   \* graph.py: module-level cache of the loaded documents
    startup,      \* what load_documents returned when the module was imported
    state,        \* the run's TripAssistantState (only the keys set so far)
    pending,      \* nodes the graph has scheduled and not yet run
    status,       \* "idle" | "running" | "END" | "raised" | "routed"
    exception,    \* the exception that escaped the run, None when none did
    trace,        \* the run's events in the order they happened
    calls,        \* the model calls the run issued, in order
    log,          \* the records the run handed to the logger
    served,       \* runs started in this process
    runs,         \* concurrent runs of one process: run id -> its run record
    _graph,       \* handler.py: the cached graph, None until the first _get_graph
    dataDir,      \* the data directory: whether it exists, and its .txt files as listed
    response,     \* what the last handler call returned to its caller
    environ,      \* os.environ: the names of the variables that are set
    ssmCalls,     \* ssm.get_parameter calls made by this process
    loads,        \* load_documents calls made by this process
    event,        \* the Lambda event of the last handler call
    graphCalls,   \* _get_graph calls made by this process
    loader,       \* a call of load_documents: its position, its local dictionary
    api,          \* the API process: its mode, the /messages request in hand
    feedback      \* the API process: the /feedback request in hand

vars ==
    <<_documents, startup, state, pending, status, exception, trace, calls, log,
      served, runs, _graph, dataDir, response, environ, ssmCalls, loads, event,
      graphCalls, loader, api, feedback>>

----------------------------------------------------------------------------
(* Bounds of the model *)

\* runs one process serves
MaxRequests == 2

\* .txt files of the full data directory that a directory may lack
MaxMissing == 1

----------------------------------------------------------------------------
(* Python values *)

None == "<None>"

EmptyDict == [k \in {} |-> k]

Has(d, k) == k \in DOMAIN d

\* dict update: the keys of upd replace those of d
Merge(d, upd) == upd @@ d

Range(s) == {s[i] : i \in 1..Len(s)}

\* `word in text`, for a word that is one token
Contains(text, word) == \E i \in 1..Len(text) : text[i] = word

\* `sub in text`, for a text sub
IsInfix(sub, text) ==
    \E i \in 0..(Len(text) - Len(sub)) :
        \A j \in 1..Len(sub) : text[i + j] = sub[j]

RECURSIVE Join(_, _)
\* sep.join(parts)
Join(sep, parts) ==
    IF Len(parts) = 0 THEN <<>>
    ELSE IF Len(parts) = 1 THEN parts[1]
    ELSE parts[1] \o sep \o Join(sep, Tail(parts))

----------------------------------------------------------------------------
(* schemas.py *)

TopicCategory ==
    {"flight", "car_rental", "routes", "aosta", "chamonix", "annecy_geneva", "general"}

\* mutant: the confidence field without its upper limit (le=1.0)
TopicClassificationValid_no_upper(category, confidence) ==
    /\ category \in TopicCategory
    /\ confidence >= 0

\* mutant: the category field as a plain str
TopicClassificationValid_any_category(category, confidence) ==
    /\ confidence >= 0
    /\ confidence <= 100

\* pydantic validation of TopicClassification(category=..., confidence=...)
TopicClassificationValid(category, confidence) ==
    /\ category \in TopicCategory
    /\ confidence >= 0
    /\ confidence <= 100

\* mutant: a confidence floor, below which the topic becomes general
TopicClassification_floor(category, confidence) ==
    [category |-> IF confidence < 50 THEN "general" ELSE category,
     confidence |-> confidence]

TopicClassification(category, confidence) ==
    [category |-> category, confidence |-> confidence]

----------------------------------------------------------------------------
(* documents.py *)

\* stems of the .txt files of the full data directory
Stems ==
    <<"aosta_valley", "annecy_geneva", "car_rental", "chamonix", "flight",
      "notes", "routes_to_aosta">>

FileText(stem) ==
    IF stem = "notes" THEN <<>> ELSE <<"text of " \o stem, "more of " \o stem>>

RECURSIVE SelectFiles(_, _)
SelectFiles(files, present) ==
    IF Len(files) = 0 THEN <<>>
    ELSE (IF files[1] \in present THEN <<files[1]>> ELSE <<>>)
             \o SelectFiles(Tail(files), present)

Reverse(s) == [i \in 1..Len(s) |-> s[Len(s) + 1 - i]]

\* the orders in which glob("*.txt") may list a directory
GlobOrders(present) ==
    {SelectFiles(Stems, present), Reverse(SelectFiles(Stems, present))}

\* load_documents on an existing directory: one entry per .txt file,
\* keyed by the file's stem, in the order glob lists the files
load_documents(listing) ==
    [i \in 1..Len(listing) |-> [name |-> listing[i], content |-> FileText(listing[i])]]

DataDirs ==
    {d \in SUBSET Range(Stems) : Cardinality(Range(Stems) \ d) <= MaxMissing}

DocumentSets ==
    UNION {{load_documents(l) : l \in GlobOrders(d)} : d \in DataDirs}

Keys(documents) == {documents[i].name : i \in 1..Len(documents)}

\* mutant: get without its default, the missing document formatted as "None"
dict_get_none_default(documents, key, default) ==
    IF key \in Keys(documents)
    THEN documents[CHOOSE i \in 1..Len(documents) : documents[i].name = key].content
    ELSE <<"None">>

\* mutant: a lookup that never finds the key
dict_get_never_found(documents, key, default) == default

\* documents.get(key, default)
dict_get(documents, key, default) ==
    IF key \in Keys(documents)
    THEN documents[CHOOSE i \in 1..Len(documents) : documents[i].name = key].content
    ELSE default

----------------------------------------------------------------------------
(* prompts.py *)

SPECIALIST_PROMPT_TEMPLATE(topic, context, question) ==
    <<"Answer the following question about ", topic,
      " using only the provided context.", "[Trip timeline reference]", "Context:">>
        \o context
        \o <<"Question: ">>
        \o question
        \o <<"Provide a clear, concise answer based on the context.",
             "If the context lists multiple options or alternatives, present ALL of them.",
             "If the context doesn't contain the information, say so.">>

GENERAL_PROMPT_TEMPLATE(context, question) ==
    <<"Answer the following question about a family trip to the French/Italian Alps.",
      "Available information:">>
        \o context
        \o <<"Question: ">>
        \o question
        \o <<"Provide a helpful answer based on the available information.",
             "If the question is unclear or you need more details, ask for clarification.">>

TOPICS ==
    [flight |-> "a flight",
     car_rental |-> "car rental",
     routes |-> "driving routes",
     aosta |-> "the Aosta Valley itinerary",
     chamonix |-> "the Chamonix itinerary",
     annecy_geneva |-> "the Annecy and Geneva itinerary"]

----------------------------------------------------------------------------
(* The language model: each call returns or raises, as the model decides *)

ErrorTexts ==
    {<<"Simulated OpenAI API failure">>,
     <<"Traceback", " (most recent call last): ", "Exception", ": timeout">>}

\* what the model may answer to the classification call, before validation
RawCategories == TopicCategory \cup {"hotel"}

RawConfidences == {0, 50, 95, 150}

ClassifyOutcomes ==
    [kind : {"value"}, category : RawCategories, confidence : RawConfidences]
        \cup [kind : {"error"}, error : ErrorTexts]

\* what the model may answer to the answer call; content is a string or not
CompleteOutcomes ==
    [kind : {"value"}, isStr : {TRUE},
     content : {<<"Your flight departs at 10:00 AM">>, <<>>}]
        \cup [kind : {"value"}, isStr : {FALSE}, content : {<<"content block">>}]
        \cup [kind : {"error"}, error : ErrorTexts]

Raised(name) ==
    [raised |-> TRUE, exception |-> name, update |-> EmptyDict,
     log |-> <<>>, calls |-> <<>>, events |-> <<>>]

Returned(update, logged, called, events) ==
    [raised |-> FALSE, exception |-> None, update |-> update,
     log |-> logged, calls |-> called, events |-> events]

----------------------------------------------------------------------------
(* nodes/classifier.py *)

\* mutant: the general topic given a document of its own
CATEGORY_TO_DOCUMENT_KEY_general_flight ==
    [flight |-> "flight",
     car_rental |-> "car_rental",
     routes |-> "routes_to_aosta",
     aosta |-> "aosta_valley",
     chamonix |-> "chamonix",
     annecy_geneva |-> "annecy_geneva",
     general |-> "flight"]

CATEGORY_TO_DOCUMENT_KEY ==
    [flight |-> "flight",
     car_rental |-> "car_rental",
     routes |-> "routes_to_aosta",
     aosta |-> "aosta_valley",
     chamonix |-> "chamonix",
     annecy_geneva |-> "annecy_geneva",
     general |-> ""]

ClassifierPrompt(question) ==
    <<"Classify the following question about a family trip to the French/Italian Alps.",
      "Available categories:",
      "- flight: Questions about flight details (times, airline, etc.)",
      "- car_rental: Questions about car rental pickup, location, details",
      "- routes: Questions about driving routes to destinations",
      "- aosta: Questions about Aosta Valley itinerary (July 8-11)",
      "- chamonix: Questions about Chamonix itinerary (July 12-16)",
      "- annecy_geneva: Questions about Annecy/Geneva itinerary (July 16-20)",
      "- general: Unclear questions or general trip questions",
      "Question: ">>
        \o question
        \o <<"Classify this question and provide a confidence score (0.0-1.0).">>

\* mutant: the prompt also lists the documents at hand
classify_prompt_with_documents(s) ==
    ClassifierPrompt(s.question)
        \o [i \in 1..Len(s.documents) |-> s.documents[i].name]

\* the prompt f-string, evaluated where question and documents are in scope
classify_prompt(s) == ClassifierPrompt(s.question)

\* schemas.py: the classifier's partial state update
ClassifierOutput(category, confidence, current_context) ==
    [category |-> category, confidence |-> confidence,
     current_context |-> current_context]

\* llm.with_structured_output(TopicClassification).invoke(prompt): the model's
\* answer as a validated TopicClassification, or an exception
structured_llm_invoke(llm) ==
    IF llm.kind = "error"
    THEN [raised |-> TRUE, error |-> llm.error]
    ELSE IF TopicClassificationValid(llm.category, llm.confidence)
    THEN [raised |-> FALSE, value |-> TopicClassification(llm.category, llm.confidence)]
    ELSE [raised |-> TRUE, error |-> <<"validation error for TopicClassification">>]

\* mutant: a fallback category that is no topic
ClassifierFallback_typo == TopicClassification("unknown", 0)

\* mutant: a fallback that claims some confidence
ClassifierFallback_confident == TopicClassification("general", 50)

\* the fallback of the except branch
ClassifierFallback == TopicClassification("general", 0)

classify_question(s, llm) ==
    IF ~(Has(s, "question") /\ Has(s, "documents"))
    THEN Raised("KeyError")
    ELSE
        LET question == s.question
            documents == s.documents
            prompt == classify_prompt(s)
            res == structured_llm_invoke(llm)
            classification == IF res.raised THEN ClassifierFallback ELSE res.value
            logged ==
                IF res.raised
                THEN <<[level |-> "error", msg |-> <<"Classifier failed: ">> \o res.error]>>
                ELSE <<>>
            called ==
                <<[api |-> "classify", node |-> "classifier", prompt |-> prompt,
                   response |-> llm]>>
            events ==
                <<"classifier:enter", "llm.classify:call",
                  IF res.raised THEN "llm.classify:raise" ELSE "llm.classify:return",
                  "classifier:exit">>
        IN  IF ~Has(CATEGORY_TO_DOCUMENT_KEY, classification.category)
            THEN Raised("KeyError")
            ELSE
                LET doc_key == CATEGORY_TO_DOCUMENT_KEY[classification.category]
                    current_context ==
                        IF doc_key # "" THEN dict_get(documents, doc_key, <<>>) ELSE <<>>
                IN  Returned(ClassifierOutput(classification.category,
                                              classification.confidence,
                                              current_context),
                             logged, called, events)

----------------------------------------------------------------------------
(* nodes/specialist_factory.py, nodes/__init__.py, nodes/general.py *)

\* mutant: a specialist that also clears the context it used
SpecialistOutput_clears_context(answer, source) ==
    [answer |-> answer, source |-> source, current_context |-> <<>>]

\* schemas.py: a specialist's partial state update
SpecialistOutput(answer, source) == [answer |-> answer, source |-> source]

\* str.title() of the category names
Title(category) ==
    CASE category = "flight" -> "Flight"
      [] category = "car_rental" -> "Car_Rental"
      [] category = "routes" -> "Routes"
      [] category = "aosta" -> "Aosta"
      [] category = "chamonix" -> "Chamonix"
      [] category = "annecy_geneva" -> "Annecy_Geneva"
      [] OTHER -> category

\* mutant: the response content taken without the assert
llm_invoke_no_assert(llm) ==
    IF llm.kind = "error"
    THEN [raised |-> TRUE, error |-> llm.error]
    ELSE [raised |-> FALSE, content |-> llm.content]

\* llm.invoke(prompt) followed by the assert on response.content
llm_invoke(llm) ==
    IF llm.kind = "error"
    THEN [raised |-> TRUE, error |-> llm.error]
    ELSE IF ~llm.isStr
    THEN [raised |-> TRUE, error |-> <<"Expected string response from LLM">>]
    ELSE [raised |-> FALSE, content |-> llm.content]

\* mutant: the apology quotes the caught error
SpecialistApology_leak(category, error) ==
    <<"Sorry", ", I ", "couldn't", " retrieve ", TOPICS[category],
      " information right now: ">> \o error \o <<"Please try again.">>

\* the answer of the except branch; the caught error is in scope and unused
SpecialistApology(category, error) ==
    <<"Sorry", ", I ", "couldn't", " retrieve ", TOPICS[category],
      " information right now. ", "Please try again.">>

\* the function create_specialist(category, source_file) returns, applied to s
specialist_node(category, source_file, s, llm) ==
    IF ~(Has(s, "question") /\ Has(s, "current_context") /\ Has(TOPICS, category))
    THEN Raised("KeyError")
    ELSE
        LET question == s.question
            context == s.current_context
            prompt == SPECIALIST_PROMPT_TEMPLATE(TOPICS[category], context, question)
            res == llm_invoke(llm)
            answer == IF res.raised THEN SpecialistApology(category, res.error) ELSE res.content
            logged ==
                IF res.raised
                THEN <<[level |-> "error",
                        msg |-> <<Title(category), " specialist failed: ">> \o res.error]>>
                ELSE <<>>
            called ==
                <<[api |-> "complete", node |-> category, prompt |-> prompt,
                   response |-> llm]>>
            events ==
                <<category \o ":enter", "llm.complete:call",
                  IF res.raised THEN "llm.complete:raise" ELSE "llm.complete:return",
                  category \o ":exit">>
        IN  Returned(SpecialistOutput(answer, source_file), logged, called, events)

\* mutant: a specialist created without its source file
Specialists_no_source ==
    [flight |-> [category |-> "flight", source_file |-> None],
     car_rental |-> [category |-> "car_rental", source_file |-> "car_rental.txt"],
     routes |-> [category |-> "routes", source_file |-> "routes_to_aosta.txt"],
     aosta |-> [category |-> "aosta", source_file |-> "aosta_valley.txt"],
     chamonix |-> [category |-> "chamonix", source_file |-> "chamonix.txt"],
     annecy_geneva |-> [category |-> "annecy_geneva", source_file |-> "annecy_geneva.txt"]]

\* mutant: source files named after the category, not after the document
Specialists_category_txt ==
    [flight |-> [category |-> "flight", source_file |-> "flight.txt"],
     car_rental |-> [category |-> "car_rental", source_file |-> "car_rental.txt"],
     routes |-> [category |-> "routes", source_file |-> "routes.txt"],
     aosta |-> [category |-> "aosta", source_file |-> "aosta.txt"],
     chamonix |-> [category |-> "chamonix", source_file |-> "chamonix.txt"],
     annecy_geneva |-> [category |-> "annecy_geneva", source_file |-> "annecy_geneva.txt"]]

\* the specialists the factory creates
Specialists ==
    [flight |-> [category |-> "flight", source_file |-> "flight.txt"],
     car_rental |-> [category |-> "car_rental", source_file |-> "car_rental.txt"],
     routes |-> [category |-> "routes", source_file |-> "routes_to_aosta.txt"],
     aosta |-> [category |-> "aosta", source_file |-> "aosta_valley.txt"],
     chamonix |-> [category |-> "chamonix", source_file |-> "chamonix.txt"],
     annecy_geneva |-> [category |-> "annecy_geneva", source_file |-> "annecy_geneva.txt"]]

GeneralApology ==
    <<"Sorry", ", I ", "couldn't", " process your question right now. ",
      "Please try rephrasing or asking something more specific.">>

\* mutant: the documents joined without their names
AllContext_no_names(documents) ==
    Join(<<"\n\n">>, [i \in 1..Len(documents) |-> documents[i].content])

\* "\n\n".join(f"=== {name} ===\n{content}" for name, content in documents.items())
AllContext(documents) ==
    Join(<<"\n\n">>,
         [i \in 1..Len(documents) |->
             <<"=== ", documents[i].name, " ===\n">> \o documents[i].content])

handle_general(s, llm) ==
    IF ~(Has(s, "question") /\ Has(s, "documents"))
    THEN Raised("KeyError")
    ELSE
        LET question == s.question
            documents == s.documents
            all_context == AllContext(documents)
            prompt == GENERAL_PROMPT_TEMPLATE(all_context, question)
            res == llm_invoke(llm)
            answer == IF res.raised THEN GeneralApology ELSE res.content
            logged ==
                IF res.raised
                THEN <<[level |-> "error",
                        msg |-> <<"General specialist failed: ">> \o res.error]>>
                ELSE <<>>
            called ==
                <<[api |-> "complete", node |-> "general", prompt |-> prompt,
                   response |-> llm]>>
            events ==
                <<"general:enter", "llm.complete:call",
                  IF res.raised THEN "llm.complete:raise" ELSE "llm.complete:return",
                  "general:exit">>
        IN  Returned(SpecialistOutput(answer, None), logged, called, events)

----------------------------------------------------------------------------
(* graph.py *)

\* mutant: documents the caller passed in are kept (setdefault)
inject_documents_keep(s, cached) ==
    Returned([documents |-> IF Has(s, "documents") THEN s.documents ELSE cached],
             <<>>, <<>>, <<"inject_documents:enter", "inject_documents:exit">>)

inject_documents(s, cached) ==
    Returned([documents |-> cached], <<>>, <<>>,
             <<"inject_documents:enter", "inject_documents:exit">>)

\* mutant: every question goes to the general specialist
route_by_category_general(s) == [node |-> "general", log |-> <<>>]

\* mutant: no default for a missing category
route_by_category_no_default(s) ==
    [node |-> IF Has(s, "category") THEN s.category ELSE None, log |-> <<>>]

route_by_category(s) ==
    LET category == IF Has(s, "category") THEN s.category ELSE None
    IN  IF category = None
        THEN [node |-> "general",
              log |-> <<[level |-> "warning",
                         msg |-> <<"No category set by classifier, routing to general">>]>>]
        ELSE [node |-> category, log |-> <<>>]

\* create_graph: the nodes added, ...
NodeNames ==
    {"inject_documents", "classifier", "flight", "car_rental", "routes", "aosta",
     "chamonix", "annecy_geneva", "general"}

\* mutant: the classifier is entered from START too
Edges_parallel ==
    {<<"START", "inject_documents">>, <<"START", "classifier">>,
     <<"inject_documents", "classifier">>}
        \cup {<<n, "END">> : n \in {"flight", "car_rental", "routes", "aosta",
                                    "chamonix", "annecy_geneva", "general"}}

\* mutant: the topic specialists hand over to the general specialist
Edges_chain ==
    {<<"START", "inject_documents">>, <<"inject_documents", "classifier">>,
     <<"general", "END">>}
        \cup {<<n, "general">> : n \in {"flight", "car_rental", "routes", "aosta",
                                        "chamonix", "annecy_geneva"}}

\* ... the fixed edges, ...
Edges ==
    {<<"START", "inject_documents">>, <<"inject_documents", "classifier">>}
        \cup {<<n, "END">> : n \in {"flight", "car_rental", "routes", "aosta",
                                    "chamonix", "annecy_geneva", "general"}}

\* ... and the nodes whose successor route_by_category picks
ConditionalEdges == {"classifier"}

\* the nodes a finished node hands control to, given the updated state
Successors(node, s) ==
    {e[2] : e \in {x \in Edges : x[1] = node}}
        \cup (IF node \in ConditionalEdges THEN {route_by_category(s).node} ELSE {})

RouteLog(node, s) ==
    IF node \in ConditionalEdges THEN route_by_category(s).log ELSE <<>>

\* A run of the compiled graph, as a record
NewRun(input) ==
    [state |-> input, pending |-> Successors("START", input), status |-> "running",
     exception |-> None, trace |-> <<>>, calls |-> <<>>, log |-> <<>>]

\* One step of the compiled graph: node has run with result r.  An exception
\* of the node ends the run and escapes graph.invoke; otherwise the update is
\* merged into the state and the node's successors are scheduled.
AfterStep(run, node, r) ==
    IF r.raised
    THEN [run EXCEPT !.status = "raised",
                     !.exception = r.exception,
                     !.pending = {},
                     !.trace = @ \o <<node \o ":raise">>]
    ELSE LET merged == Merge(run.state, r.update)
             next == Successors(node, merged)
             known == next \subseteq NodeNames \cup {"END"}
             left == IF known THEN (run.pending \ {node}) \cup (next \ {"END"}) ELSE {}
         IN  [state |-> merged,
              trace |-> run.trace \o r.events,
              calls |-> run.calls \o r.calls,
              log |-> run.log \o r.log \o RouteLog(node, merged),
              pending |-> left,
              status |-> IF ~known THEN "raised" ELSE IF left = {} THEN "END" ELSE "running",
              exception |-> IF known THEN None ELSE "UnknownNode"]

\* the run the variables state .. log hold
CurrentRun ==
    [state |-> state, pending |-> pending, status |-> status, exception |-> exception,
     trace |-> trace, calls |-> calls, log |-> log]

Step(node, r) ==
    LET new == AfterStep(CurrentRun, node, r)
    IN  /\ state' = new.state
        /\ pending' = new.pending
        /\ status' = new.status
        /\ exception' = new.exception
        /\ trace' = new.trace
        /\ calls' = new.calls
        /\ log' = new.log

\* mutant: the classifier takes its document out of the dictionary (pop for get)
documents_after_pop(node, r, documents) ==
    IF node = "classifier" /\ ~r.raised
    THEN SelectSeq(documents,
                   LAMBDA d : d.name # CATEGORY_TO_DOCUMENT_KEY[r.update.category])
    ELSE documents

\* The cached dictionary after a node ran.  state["documents"] is the cached
\* object itself, and the nodes only read it (get, items).
documents_after(node, r, documents) == documents

\* load_documents called on its own, and the API process
sideVars == <<loader, api, feedback>>

\* the variables of handler.py and of the process's environment
handlerVars ==
    <<_graph, dataDir, response, environ, ssmCalls, loads, event, graphCalls, sideVars>>

\* the variables the pipeline's nodes never touch
processVars == <<startup, served, runs, handlerVars>>

RunNode(node, r) ==
    /\ Step(node, r)
    /\ _documents' = documents_after(node, r, _documents)
    /\ UNCHANGED processVars

----------------------------------------------------------------------------
(* Inputs *)

Questions == {<<>>, <<"What time is our flight?">>}

\* tests/conftest.py: the documents of the sample state
SampleDocuments ==
    load_documents(<<"flight", "car_rental", "routes_to_aosta", "aosta_valley",
                     "chamonix", "annecy_geneva">>)

\* a caller passes the question alone (handler.py) or a whole state (the tests)
QuestionOnly(q) == [question |-> q]

SampleState(q) ==
    [question |-> q, category |-> "general", confidence |-> 0,
     documents |-> SampleDocuments, current_context |-> <<>>,
     answer |-> <<>>, source |-> None]

InvokeInputs == {QuestionOnly(q) : q \in Questions} \cup {SampleState(q) : q \in Questions}

----------------------------------------------------------------------------
(* The process: documents are loaded at import, then runs are served *)

\* the variables of the other specifications, at rest
NoRuns == [r \in {} |-> r]

\* no handler call has returned anything
NoResponse == [statusCode |-> 0, body |-> EmptyDict]

\* load_documents is not being called
LoaderIdle ==
    [pc |-> "idle", todo |-> <<>>, documents |-> <<>>, exception |-> None,
     returned |-> FALSE, result |-> <<>>]

\* no /messages request in hand
NoApiResponse == [status_code |-> 0]

ApiIdle ==
    [mode |-> "dev", function_name |-> "", messages_table_name |-> "",
     pc |-> "idle", question |-> <<>>, requests |-> 0, invoked |-> 0,
     stored |-> 0, result |-> EmptyDict, response |-> NoApiResponse]

\* no /feedback request in hand
FeedbackIdle ==
    [pc |-> "idle", requests |-> 0, request |-> EmptyDict, settings |-> EmptyDict,
     message_preview |-> <<>>, stored |-> <<>>, emails |-> <<>>,
     response |-> NoApiResponse]

SideAtRest ==
    /\ loader = LoaderIdle
    /\ api = ApiIdle
    /\ feedback = FeedbackIdle

\* src.graph was imported from a data directory that lists the documents'
\* files in the documents' order, with the API key in the environment
HandlerAtRest ==
    /\ _graph = "graph"
    /\ dataDir = [exists |-> TRUE,
                  files |-> [i \in 1..Len(_documents) |-> _documents[i].name],
                  faults |-> EmptyDict]
    /\ response = NoResponse
    /\ environ = {"OPENAI_API_KEY"}
    /\ ssmCalls = 0
    /\ loads = 1
    /\ event = EmptyDict
    /\ graphCalls = 1
    /\ SideAtRest

Init ==
    /\ _documents \in DocumentSets
    /\ startup = _documents
    /\ runs = NoRuns
    /\ HandlerAtRest
    /\ state = EmptyDict
    /\ pending = {}
    /\ status = "idle"
    /\ exception = None
    /\ trace = <<>>
    /\ calls = <<>>
    /\ log = <<>>
    /\ served = 0

\* graph.invoke(input): a new run starts once the previous one is over
Invoke ==
    /\ status \in {"idle", "END", "raised"}
    /\ served < MaxRequests
    /\ \E input \in InvokeInputs :
        /\ state' = input
        /\ pending' = Successors("START", input)
    /\ status' = "running"
    /\ exception' = None
    /\ trace' = <<>>
    /\ calls' = <<>>
    /\ log' = <<>>
    /\ served' = served + 1
    /\ UNCHANGED <<_documents, startup, runs, handlerVars>>

InjectDocuments ==
    /\ status = "running"
    /\ "inject_documents" \in pending
    /\ RunNode("inject_documents", inject_documents(state, _documents))

Classifier ==
    /\ status = "running"
    /\ "classifier" \in pending
    /\ \E llm \in ClassifyOutcomes : RunNode("classifier", classify_question(state, llm))

Specialist ==
    /\ status = "running"
    /\ \E name \in DOMAIN Specialists :
        /\ name \in pending
        /\ \E llm \in CompleteOutcomes :
            RunNode(name, specialist_node(Specialists[name].category,
                                          Specialists[name].source_file, state, llm))

General ==
    /\ status = "running"
    /\ "general" \in pending
    /\ \E llm \in CompleteOutcomes : RunNode("general", handle_general(state, llm))

Next == Invoke \/ InjectDocuments \/ Classifier \/ Specialist \/ General

Spec == Init /\ [][Next]_vars

----------------------------------------------------------------------------
(* route_by_category called on its own, on any state a caller may hand it *)

RouteCategories == RawCategories \cup {None}

RouteInputs ==
    {QuestionOnly(q) : q \in Questions}
        \cup {[SampleState(q) EXCEPT !.category = c] : q \in Questions, c \in RouteCategories}

InitRoute ==
    /\ _documents \in DocumentSets
    /\ startup = _documents
    /\ runs = NoRuns
    /\ HandlerAtRest
    /\ state \in RouteInputs
    /\ pending = {}
    /\ status = "idle"
    /\ exception = None
    /\ trace = <<>>
    /\ calls = <<>>
    /\ log = <<>>
    /\ served = 0

RouteCall ==
    /\ status = "idle"
    /\ pending' = {route_by_category(state).node}
    /\ log' = route_by_category(state).log
    /\ status' = "routed"
    /\ UNCHANGED <<_documents, startup, state, exception, trace, calls, served,
                   runs, handlerVars>>

NextRoute == RouteCall

SpecRoute == InitRoute /\ [][NextRoute]_vars

\* graph.invoke runs the scheduled nodes to completion: a scheduled node runs
FairSpec ==
    /\ Spec
    /\ WF_vars(InjectDocuments)
    /\ WF_vars(Classifier)
    /\ WF_vars(Specialist)
    /\ WF_vars(General)

----------------------------------------------------------------------------
(* Several runs of the one compiled graph in one process: graph.ainvoke is
   awaited by concurrent requests, so the runs' nodes interleave freely *)

MaxRuns == 2

\* the process's document sets: the full directory, and one without flight.txt
ConcDocumentSets ==
    {load_documents(SelectFiles(Stems, Range(Stems))),
     load_documents(SelectFiles(Stems, Range(Stems) \ {"flight"}))}

\* the responses fixed for a run's two model calls
Scripts ==
    [classify :
        {o \in ClassifyOutcomes :
            IF o.kind = "value"
            THEN <<o.category, o.confidence>> \in {<<"flight", 95>>, <<"general", 50>>}
            ELSE o.error = <<"Simulated OpenAI API failure">>},
     complete :
        {o \in CompleteOutcomes :
            IF o.kind = "value"
            THEN o.isStr /\ o.content # <<>>
            ELSE o.error = <<"Simulated OpenAI API failure">>}]

ConcInputs == {QuestionOnly(<<"What time is our flight?">>), SampleState(<<>>)}

\* the node function a node name stands for, called with the run's responses
NodeResult(node, s, script, cached) ==
    CASE node = "inject_documents" -> inject_documents(s, cached)
      [] node = "classifier" -> classify_question(s, script.classify)
      [] node = "general" -> handle_general(s, script.complete)
      [] OTHER -> specialist_node(Specialists[node].category,
                                  Specialists[node].source_file, s, script.complete)

\* mutant: the runs write into one state dictionary shared by the process
state_of_shared(all, id) ==
    LET others == DOMAIN all \ {id}
    IN  IF others = {} THEN all[id].run.state
        ELSE Merge(all[id].run.state, all[CHOOSE j \in others : TRUE].run.state)

\* the state a node of run id is called with: the run's own
state_of(all, id) == all[id].run.state

InitConc ==
    /\ _documents \in ConcDocumentSets
    /\ startup = _documents
    /\ runs = NoRuns
    /\ HandlerAtRest
    /\ state = EmptyDict
    /\ pending = {}
    /\ status = "idle"
    /\ exception = None
    /\ trace = <<>>
    /\ calls = <<>>
    /\ log = <<>>
    /\ served = 0

\* the variables of the single run of Spec, unused while runs holds the runs
singleRunVars ==
    <<state, pending, status, exception, trace, calls, log, served,
      startup, handlerVars>>

\* graph.ainvoke(input) of a further request
StartRun ==
    /\ Cardinality(DOMAIN runs) < MaxRuns
    /\ \E input \in ConcInputs, script \in Scripts :
        runs' = runs @@ (Cardinality(DOMAIN runs) + 1 :>
                            [input |-> input, script |-> script, run |-> NewRun(input)])
    /\ UNCHANGED <<_documents, singleRunVars>>

\* a scheduled node of run id runs
NodeStep(id, node) ==
    /\ runs[id].run.status = "running"
    /\ node \in runs[id].run.pending
    /\ LET r == NodeResult(node, state_of(runs, id), runs[id].script, _documents)
       IN  /\ runs' = [runs EXCEPT ![id].run = AfterStep(@, node, r)]
           /\ _documents' = documents_after(node, r, _documents)
    /\ UNCHANGED singleRunVars

ConcInjectDocuments == \E id \in DOMAIN runs : NodeStep(id, "inject_documents")

ConcClassifier == \E id \in DOMAIN runs : NodeStep(id, "classifier")

ConcSpecialist == \E id \in DOMAIN runs : \E name \in DOMAIN Specialists : NodeStep(id, name)

ConcGeneral == \E id \in DOMAIN runs : NodeStep(id, "general")

NextConc ==
    StartRun \/ ConcInjectDocuments \/ ConcClassifier \/ ConcSpecialist \/ ConcGeneral

SpecConc == InitConc /\ [][NextConc]_vars

RECURSIVE RunToEnd(_, _, _)
\* graph.invoke of one run with nothing else going on in the process
RunToEnd(run, script, cached) ==
    IF run.status # "running" THEN run
    ELSE LET node == CHOOSE n \in run.pending : TRUE
         IN  RunToEnd(AfterStep(run, node, NodeResult(node, run.state, script, cached)),
                      script, cached)

RunAlone(input, script, cached) == RunToEnd(NewRun(input), script, cached)

Finished == {id \in DOMAIN runs : runs[id].run.status # "running"}

----------------------------------------------------------------------------
(* handler.py: the agent's Lambda container, one handler call at a time.
   A JSON body is kept as the object it decodes to. *)

\* mutant: a sentinel no caller sends
PING_SENTINEL_typo == "_ping_"

PING_SENTINEL == "__ping__"

EnvNames == {"SSM_PARAMETER_NAME", "OPENAI_API_KEY"}

\* ssm.get_parameter returns the key or raises
SsmOutcomes == {"value", "ClientError"}

EventQuestions ==
    {<<>>, <<" ">>, <<"__ping__">>, <<"What time is our flight?">>}

\* a direct invocation carries the question, an API Gateway event a body
Events ==
    {EmptyDict}
        \cup {[question |-> q] : q \in EventQuestions}
        \cup {[body |-> EmptyDict], [body |-> [question |-> <<"What time is our flight?">>]]}

\* body = event if "question" in event else json.loads(event.get("body", "{}"))
\* question = body.get("question", "")
question_of(ev) ==
    LET body == IF Has(ev, "question") THEN ev
                ELSE IF Has(ev, "body") THEN ev.body ELSE EmptyDict
    IN  IF Has(body, "question") THEN body.question ELSE <<>>

\* the data directories a container may be deployed with
ServiceDataDirs ==
    {[exists |-> FALSE, files |-> <<>>, faults |-> EmptyDict]}
        \cup {[exists |-> TRUE, files |-> l, faults |-> EmptyDict] :
                l \in GlobOrders(Range(Stems)) \cup {SelectFiles(Stems, Range(Stems) \ {"flight"})}}
        \cup {[exists |-> TRUE, files |-> SelectFiles(Stems, Range(Stems)),
               faults |-> [f \in {"chamonix"} |-> "UnicodeDecodeError"]]}

\* the listed files whose read_text raises
FaultyFiles(dir) == {f \in Range(dir.files) : Has(dir.faults, f)}

\* the exception of the first file, in glob order, that cannot be read
FirstFault(dir) ==
    dir.faults[dir.files[CHOOSE i \in 1..Len(dir.files) :
                            /\ Has(dir.faults, dir.files[i])
                            /\ \A j \in 1..(i - 1) : ~Has(dir.faults, dir.files[j])]]

\* mutant: load_documents without the check that the directory exists, the
\* glob of a missing directory being empty
import_graph_no_check(dir) ==
    IF FaultyFiles(dir) # {}
    THEN [raised |-> TRUE, exception |-> FirstFault(dir),
          documents |-> <<>>, graph |-> None]
    ELSE [raised |-> FALSE, exception |-> None,
          documents |-> load_documents(dir.files), graph |-> "graph"]

\* from src.graph import graph, the first time: the module body loads the
\* documents and then compiles the graph
import_graph(dir) ==
    IF ~dir.exists
    THEN [raised |-> TRUE, exception |-> "FileNotFoundError",
          documents |-> <<>>, graph |-> None]
    ELSE IF FaultyFiles(dir) # {}
    THEN [raised |-> TRUE, exception |-> FirstFault(dir),
          documents |-> <<>>, graph |-> None]
    ELSE [raised |-> FALSE, exception |-> None,
          documents |-> load_documents(dir.files), graph |-> "graph"]

\* mutant: _get_graph without the early return of the cached graph
get_graph_no_cache(cache, env, dir, documents, ssm) ==
    LET fetch == "SSM_PARAMETER_NAME" \in env /\ "OPENAI_API_KEY" \notin env
        fetched == IF fetch THEN 1 ELSE 0
        env2 == IF fetch THEN env \cup {"OPENAI_API_KEY"} ELSE env
        imp == import_graph(dir)
    IN  IF fetch /\ ssm = "ClientError"
        THEN [raised |-> TRUE, exception |-> "ClientError", graph |-> None,
              environ |-> env, documents |-> documents, ssm |-> 1, loads |-> 0]
        ELSE IF imp.raised
        THEN [raised |-> TRUE, exception |-> imp.exception, graph |-> None,
              environ |-> env2, documents |-> documents, ssm |-> fetched, loads |-> 1]
        ELSE [raised |-> FALSE, exception |-> None, graph |-> imp.graph,
              environ |-> env2, documents |-> imp.documents, ssm |-> fetched,
              loads |-> 1]

\* _get_graph(): what it raises or returns, and what it leaves behind
get_graph(cache, env, dir, documents, ssm) ==
    IF cache # None
    THEN [raised |-> FALSE, exception |-> None, graph |-> cache, environ |-> env,
          documents |-> documents, ssm |-> 0, loads |-> 0]
    ELSE
        LET fetch == "SSM_PARAMETER_NAME" \in env /\ "OPENAI_API_KEY" \notin env
            fetched == IF fetch THEN 1 ELSE 0
            env2 == IF fetch THEN env \cup {"OPENAI_API_KEY"} ELSE env
            imp == import_graph(dir)
        IN  IF fetch /\ ssm = "ClientError"
            THEN [raised |-> TRUE, exception |-> "ClientError", graph |-> None,
                  environ |-> env, documents |-> documents, ssm |-> 1, loads |-> 0]
            ELSE IF imp.raised
            THEN [raised |-> TRUE, exception |-> imp.exception, graph |-> None,
                  environ |-> env2, documents |-> documents, ssm |-> fetched, loads |-> 1]
            ELSE [raised |-> FALSE, exception |-> None, graph |-> imp.graph,
                  environ |-> env2, documents |-> imp.documents, ssm |-> fetched,
                  loads |-> 1]

\* the process's variables after _get_graph
GetGraph(g) ==
    /\ _graph' = g.graph
    /\ environ' = g.environ
    /\ _documents' = g.documents
    /\ startup' = g.documents
    /\ ssmCalls' = ssmCalls + g.ssm
    /\ loads' = loads + g.loads
    /\ graphCalls' = graphCalls + 1

\* no run of the graph in this handler call
NoRun ==
    /\ state' = EmptyDict
    /\ pending' = {}
    /\ trace' = <<>>
    /\ calls' = <<>>
    /\ log' = <<>>

\* a fresh container: nothing imported, nothing loaded
InitService ==
    /\ dataDir \in ServiceDataDirs
    /\ environ \in SUBSET EnvNames
    /\ _graph = None
    /\ _documents = <<>>
    /\ startup = <<>>
    /\ runs = NoRuns
    /\ response = NoResponse
    /\ ssmCalls = 0
    /\ loads = 0
    /\ event = EmptyDict
    /\ graphCalls = 0
    /\ SideAtRest
    /\ state = EmptyDict
    /\ pending = {}
    /\ status = "idle"
    /\ exception = None
    /\ trace = <<>>
    /\ calls = <<>>
    /\ log = <<>>
    /\ served = 0

\* Lambda hands the container its next event once the last call is over
HandlerCalled(ev) ==
    /\ status \in {"idle", "responded", "raised"}
    /\ served < MaxRequests
    /\ served' = served + 1
    /\ event' = ev

\* if not question: return 400
HandlerMissingQuestion ==
    \E ev \in Events :
        /\ HandlerCalled(ev)
        /\ question_of(ev) = <<>>
        /\ response' = [statusCode |-> 400, body |-> [error |-> "Missing 'question' field"]]
        /\ status' = "responded"
        /\ exception' = None
        /\ NoRun
        /\ UNCHANGED <<_documents, startup, runs, _graph, dataDir, environ, ssmCalls,
                       loads, graphCalls, sideVars>>

\* if question == PING_SENTINEL: _get_graph(), return pong
HandlerPing ==
    \E ev \in Events, ssm \in SsmOutcomes :
        LET g == get_graph(_graph, environ, dataDir, _documents, ssm)
        IN  /\ HandlerCalled(ev)
            /\ question_of(ev) = <<PING_SENTINEL>>
            /\ GetGraph(g)
            /\ NoRun
            /\ exception' = g.exception
            /\ status' = IF g.raised THEN "raised" ELSE "responded"
            /\ response' =
                  IF g.raised THEN NoResponse
                  ELSE [statusCode |-> 200,
                        body |-> [answer |-> <<"pong">>, category |-> "ping",
                                  confidence |-> 100, source |-> None]]
            /\ UNCHANGED <<runs, dataDir, sideVars>>

\* graph = _get_graph(); graph.invoke({"question": question}) starts
HandlerQuestion ==
    \E ev \in Events, ssm \in SsmOutcomes :
        LET g == get_graph(_graph, environ, dataDir, _documents, ssm)
            run == NewRun([question |-> question_of(ev)])
        IN  /\ HandlerCalled(ev)
            /\ question_of(ev) \notin {<<>>, <<PING_SENTINEL>>}
            /\ GetGraph(g)
            /\ response' = NoResponse
            /\ exception' = g.exception
            /\ trace' = <<>>
            /\ calls' = <<>>
            /\ log' = <<>>
            /\ IF g.raised
               THEN status' = "raised" /\ state' = EmptyDict /\ pending' = {}
               ELSE status' = "running" /\ state' = run.state /\ pending' = run.pending
            /\ UNCHANGED <<runs, dataDir, sideVars>>

\* result.get(key, default)
result_get(result, key, default) == IF Has(result, key) THEN result[key] ELSE default

\* graph.invoke returned: the handler returns 200 with the four result fields
HandlerReturn ==
    /\ status = "END"
    /\ response' =
          [statusCode |-> 200,
           body |-> [answer |-> result_get(state, "answer", <<>>),
                     category |-> result_get(state, "category", ""),
                     confidence |-> result_get(state, "confidence", 0),
                     source |-> result_get(state, "source", None)]]
    /\ status' = "responded"
    /\ UNCHANGED <<_documents, startup, state, pending, exception, trace, calls, log,
                   served, runs, _graph, dataDir, environ, ssmCalls, loads, event,
                   graphCalls, sideVars>>

NextService ==
    \/ HandlerMissingQuestion
    \/ HandlerPing
    \/ HandlerQuestion
    \/ InjectDocuments
    \/ Classifier
    \/ Specialist
    \/ General
    \/ HandlerReturn

SpecService == InitService /\ [][NextService]_vars

----------------------------------------------------------------------------
(* documents.py: load_documents(data_dir) called on its own, file by file *)

\* files of a directory whose read_text may raise
MaxFaults == 1

\* what read_text raises on a file it cannot read or decode
ReadErrors == {"PermissionError", "UnicodeDecodeError"}

\* the directories load_documents may be pointed at: absent, or holding some
\* of the .txt files (none included), a few of them unreadable
LoadDirs ==
    {[exists |-> FALSE, files |-> <<>>, faults |-> EmptyDict]}
        \cup UNION {{[exists |-> TRUE, files |-> l, faults |-> f] :
                        f \in UNION {[bad -> ReadErrors] :
                                        bad \in {b \in SUBSET Range(l) :
                                                    Cardinality(b) <= MaxFaults}}} :
                    l \in UNION {GlobOrders(d) : d \in DataDirs \cup {{}}}}

\* mutant: a file that cannot be read is skipped
load_step_skip_unreadable(l, dir) ==
    IF l.pc = "idle"
    THEN IF ~dir.exists
         THEN [l EXCEPT !.pc = "raised", !.exception = "FileNotFoundError"]
         ELSE [l EXCEPT !.pc = "loop", !.todo = dir.files, !.documents = <<>>]
    ELSE IF l.pc = "loop" /\ l.todo # <<>>
    THEN IF Has(dir.faults, Head(l.todo))
         THEN [l EXCEPT !.todo = Tail(@)]
         ELSE [l EXCEPT !.todo = Tail(@),
                        !.documents = Append(@, [name |-> Head(l.todo),
                                                 content |-> FileText(Head(l.todo))])]
    ELSE IF l.pc = "loop"
    THEN [l EXCEPT !.pc = "returned", !.returned = TRUE, !.result = l.documents]
    ELSE l

\* load_documents, one step: the check that the directory exists, one turn
\* of the loop over glob("*.txt"), or the return of the dictionary
load_step(l, dir) ==
    IF l.pc = "idle"
    THEN IF ~dir.exists
         THEN [l EXCEPT !.pc = "raised", !.exception = "FileNotFoundError"]
         ELSE [l EXCEPT !.pc = "loop", !.todo = dir.files, !.documents = <<>>]
    ELSE IF l.pc = "loop" /\ l.todo # <<>>
    THEN IF Has(dir.faults, Head(l.todo))
         THEN [l EXCEPT !.pc = "raised", !.exception = dir.faults[Head(l.todo)]]
         ELSE [l EXCEPT !.todo = Tail(@),
                        !.documents = Append(@, [name |-> Head(l.todo),
                                                 content |-> FileText(Head(l.todo))])]
    ELSE IF l.pc = "loop"
    THEN [l EXCEPT !.pc = "returned", !.returned = TRUE, !.result = l.documents]
    ELSE l

InitLoad ==
    /\ dataDir \in LoadDirs
    /\ loader = LoaderIdle
    /\ api = ApiIdle
    /\ feedback = FeedbackIdle
    /\ environ = {}
    /\ _graph = None
    /\ _documents = <<>>
    /\ startup = <<>>
    /\ runs = NoRuns
    /\ response = NoResponse
    /\ ssmCalls = 0
    /\ loads = 0
    /\ graphCalls = 0
    /\ event = EmptyDict
    /\ state = EmptyDict
    /\ pending = {}
    /\ status = "idle"
    /\ exception = None
    /\ trace = <<>>
    /\ calls = <<>>
    /\ log = <<>>
    /\ served = 0

\* what a call of load_documents leaves alone
loadFrame ==
    <<_documents, startup, state, pending, status, exception, trace, calls, log,
      served, runs, _graph, dataDir, response, environ, ssmCalls, event, graphCalls,
      api, feedback>>

\* load_documents(data_dir) is called: if not data_dir.exists(): raise
LoadCall ==
    /\ loader.pc = "idle"
    /\ loader' = load_step(loader, dataDir)
    /\ loads' = loads + 1
    /\ UNCHANGED loadFrame

\* documents[txt_file.stem] = txt_file.read_text(encoding="utf-8")
LoadRead ==
    /\ loader.pc = "loop"
    /\ loader.todo # <<>>
    /\ loader' = load_step(loader, dataDir)
    /\ UNCHANGED <<loads, loadFrame>>

\* return documents
LoadReturn ==
    /\ loader.pc = "loop"
    /\ loader.todo = <<>>
    /\ loader' = load_step(loader, dataDir)
    /\ UNCHANGED <<loads, loadFrame>>

NextLoad == LoadCall \/ LoadRead \/ LoadReturn

SpecLoad == InitLoad /\ [][NextLoad]_vars

----------------------------------------------------------------------------
(* routers/feedback.py: POST /feedback, one request at a time.  The request
   and the settings carry the fields create_feedback reads; the stored
   answers are short enough for the preview to be the whole answer. *)

\* the settings of the process, read once (get_settings is cached)
FeedbackSettings ==
    [feedback_table_name : {"feedback"},
     messages_table_name : {"", "messages"},
     feedback_email : {"", "owner@example.com"}]

\* an optional comment: None, or a text that may be empty
Comments ==
    {[none |-> TRUE, text |-> <<>>], [none |-> FALSE, text |-> <<>>],
     [none |-> FALSE, text |-> <<"The time was wrong">>]}

FeedbackRequests == [message_id : {"msg-1"}, rating : {"up", "down"}, comment : Comments]

\* bool(comment)
Truthy(comment) == ~comment.none /\ comment.text # <<>>

\* get_message: the stored message, no message, or an exception
LookupOutcomes ==
    {[kind |-> "found", answer |-> <<"Your flight departs at 10:00 AM">>],
     [kind |-> "missing", answer |-> <<>>],
     [kind |-> "error", answer |-> <<>>]}

\* mutant: every rating with a comment is mailed
should_notify_any_rating(settings, request) ==
    /\ settings.feedback_email # ""
    /\ Truthy(request.comment)

\* settings.feedback_email and rating == "down" and comment
should_notify(settings, request) ==
    /\ settings.feedback_email # ""
    /\ request.rating = "down"
    /\ Truthy(request.comment)

\* the item create_feedback builds, without its timestamp
FeedbackItem(id, request, message_preview) ==
    [id |-> id, message_id |-> request.message_id, message_preview |-> message_preview,
     rating |-> request.rating,
     comment |-> IF Truthy(request.comment) THEN request.comment.text ELSE <<>>]

InitFeedback ==
    /\ feedback \in {[FeedbackIdle EXCEPT !.settings = st] : st \in FeedbackSettings}
    /\ loader = LoaderIdle
    /\ api = ApiIdle
    /\ dataDir = [exists |-> FALSE, files |-> <<>>, faults |-> EmptyDict]
    /\ environ = {}
    /\ _graph = None
    /\ _documents = <<>>
    /\ startup = <<>>
    /\ runs = NoRuns
    /\ response = NoResponse
    /\ ssmCalls = 0
    /\ loads = 0
    /\ graphCalls = 0
    /\ event = EmptyDict
    /\ state = EmptyDict
    /\ pending = {}
    /\ status = "idle"
    /\ exception = None
    /\ trace = <<>>
    /\ calls = <<>>
    /\ log = <<>>
    /\ served = 0

\* what create_feedback leaves alone
feedbackFrame ==
    <<_documents, startup, state, pending, status, exception, trace, calls, log,
      served, runs, _graph, dataDir, response, environ, ssmCalls, loads, event,
      graphCalls, loader, api>>

\* a validated FeedbackRequest arrives; the feedback id is drawn
FeedbackPost ==
    /\ feedback.pc \in {"idle", "responded"}
    /\ feedback.requests < MaxRequests
    /\ \E request \in FeedbackRequests :
        feedback' = [feedback EXCEPT !.pc = "lookup",
                                     !.requests = @ + 1,
                                     !.request = request,
                                     !.message_preview = <<>>,
                                     !.response = NoApiResponse]
    /\ UNCHANGED feedbackFrame

\* the message is looked up for its preview, best-effort
FeedbackLookup ==
    /\ feedback.pc = "lookup"
    /\ \E found \in LookupOutcomes :
        feedback' =
            [feedback EXCEPT
                !.pc = "store",
                !.message_preview =
                    IF feedback.settings.messages_table_name # "" /\ found.kind = "found"
                    THEN found.answer ELSE <<>>]
    /\ UNCHANGED feedbackFrame

\* await store_feedback(...): stored, or 500 "Failed to store feedback"
FeedbackStore ==
    /\ feedback.pc = "store"
    /\ \E ok \in BOOLEAN :
        feedback' =
            IF ok
            THEN [feedback EXCEPT
                    !.pc = "notify",
                    !.stored = Append(@, FeedbackItem(feedback.requests, feedback.request,
                                                      feedback.message_preview))]
            ELSE [feedback EXCEPT
                    !.pc = "responded",
                    !.response = [status_code |-> 500,
                                  detail |-> "Failed to store feedback"]]
    /\ UNCHANGED feedbackFrame

\* the notification: send_feedback_email is awaited when should_notify, and
\* keeps its own failures to itself
FeedbackNotify ==
    /\ feedback.pc = "notify"
    /\ \E sent \in BOOLEAN :
        feedback' =
            IF should_notify(feedback.settings, feedback.request)
            THEN [feedback EXCEPT
                    !.pc = "return",
                    !.emails = Append(@, [to |-> feedback.settings.feedback_email,
                                          item |-> FeedbackItem(feedback.requests,
                                                                feedback.request,
                                                                feedback.message_preview),
                                          sent |-> sent])]
            ELSE [feedback EXCEPT !.pc = "return"]
    /\ UNCHANGED feedbackFrame

\* return FeedbackResponse(status="received", id=feedback_id)
FeedbackReturn ==
    /\ feedback.pc = "return"
    /\ feedback' = [feedback EXCEPT
                        !.pc = "responded",
                        !.response = [status_code |-> 200, status |-> "received",
                                      id |-> feedback.requests]]
    /\ UNCHANGED feedbackFrame

NextFeedback ==
    FeedbackPost \/ FeedbackLookup \/ FeedbackStore \/ FeedbackNotify \/ FeedbackReturn

SpecFeedback == InitFeedback /\ [][NextFeedback]_vars

----------------------------------------------------------------------------
(* The API process: POST /messages, one request at a time.  In dev mode the
   graph is imported into the API process and invoked there; in prod mode
   AgentLambdaProxy invokes the agent's Lambda handler with the question. *)

Whitespace == {" ", "\t", "\n"}

\* str.strip()
RECURSIVE strip(_)
strip(v) ==
    IF v = <<>> THEN v
    ELSE IF Head(v) \in Whitespace THEN strip(Tail(v))
    ELSE IF v[Len(v)] \in Whitespace THEN strip(SubSeq(v, 1, Len(v) - 1))
    ELSE v

\* MessageRequest: min_length=1, then question_not_empty
MessageRequest(question) ==
    IF Len(question) < 1 \/ strip(question) = <<>>
    THEN [valid |-> FALSE, question |-> <<>>]
    ELSE [valid |-> TRUE, question |-> strip(question)]

\* the questions of the request bodies
ApiQuestions == EventQuestions

\* the API is deployed next to the data directory (dev) or in front of an
\* agent container that has it (prod)
ApiDataDirs ==
    {[exists |-> FALSE, files |-> <<>>, faults |-> EmptyDict],
     [exists |-> TRUE, files |-> SelectFiles(Stems, Range(Stems)), faults |-> EmptyDict]}

\* dependencies.get_graph: the local graph, the proxy, or a 500.  The dev
\* import catches ImportError only, so a failing load escapes as a 500 of
\* the server.
api_get_graph(a, cache, dir) ==
    IF a.mode = "dev"
    THEN IF cache # None
         THEN [raised |-> FALSE, imported |-> FALSE, detail |-> ""]
         ELSE IF import_graph(dir).raised
         THEN [raised |-> TRUE, imported |-> FALSE, detail |-> "Internal Server Error"]
         ELSE [raised |-> FALSE, imported |-> TRUE, detail |-> ""]
    ELSE IF a.function_name = ""
         THEN [raised |-> TRUE, imported |-> FALSE,
               detail |-> "Agent configuration error. Please contact support."]
         ELSE [raised |-> FALSE, imported |-> FALSE, detail |-> ""]

\* MessageResponse(answer=result["answer"], category=result["category"],
\* confidence=result["confidence"], source=result.get("source")): a missing
\* key or a confidence out of range raises
MessageResponse(result) ==
    IF /\ Has(result, "answer") /\ Has(result, "category") /\ Has(result, "confidence")
       /\ result.confidence \in 0..100
    THEN [raised |-> FALSE,
          response |-> [status_code |-> 200,
                        answer |-> result.answer,
                        category |-> result.category,
                        confidence |-> result.confidence,
                        source |-> result_get(result, "source", None)]]
    ELSE [raised |-> TRUE,
          response |-> [status_code |-> 500, detail |-> "Processing failed"]]

InitApi ==
    /\ api \in {[ApiIdle EXCEPT !.mode = m, !.function_name = f,
                                !.messages_table_name = t] :
                    m \in {"dev", "prod"}, f \in {"", "agent"}, t \in {"", "messages"}}
    /\ dataDir \in ApiDataDirs
    /\ environ \in {{"OPENAI_API_KEY"}, {"SSM_PARAMETER_NAME"}}
    /\ loader = LoaderIdle
    /\ feedback = FeedbackIdle
    /\ _graph = None
    /\ _documents = <<>>
    /\ startup = <<>>
    /\ runs = NoRuns
    /\ response = NoResponse
    /\ ssmCalls = 0
    /\ loads = 0
    /\ graphCalls = 0
    /\ event = EmptyDict
    /\ state = EmptyDict
    /\ pending = {}
    /\ status = "idle"
    /\ exception = None
    /\ trace = <<>>
    /\ calls = <<>>
    /\ log = <<>>
    /\ served = 0

\* a request arrives: the get_graph dependency is resolved, then the body is
\* validated (422), and create_message is entered
ApiPost ==
    /\ api.pc \in {"idle", "responded"}
    /\ api.requests < MaxRequests
    /\ \E question \in ApiQuestions :
        LET dep == api_get_graph(api, _graph, dataDir)
            body == MessageRequest(question)
            imp == import_graph(dataDir)
        IN  /\ api' =
                  [api EXCEPT
                     !.requests = @ + 1,
                     !.result = EmptyDict,
                     !.question = IF dep.raised THEN <<>> ELSE body.question,
                     !.pc = IF dep.raised \/ ~body.valid THEN "responded" ELSE "invoking",
                     !.response =
                        IF dep.raised THEN [status_code |-> 500, detail |-> dep.detail]
                        ELSE IF ~body.valid THEN [status_code |-> 422]
                        ELSE NoApiResponse]
            /\ _graph' = IF dep.imported THEN imp.graph ELSE _graph
            /\ _documents' = IF dep.imported THEN imp.documents ELSE _documents
            /\ startup' = IF dep.imported THEN imp.documents ELSE startup
            /\ loads' = IF api.mode = "dev" /\ _graph = None THEN loads + 1 ELSE loads
    /\ UNCHANGED <<state, pending, status, exception, trace, calls, log, served, runs,
                   dataDir, response, environ, ssmCalls, event, graphCalls, loader,
                   feedback>>

\* dev: graph.ainvoke({"question": request_body.question}) starts
ApiInvokeLocal ==
    /\ api.mode = "dev"
    /\ api.pc = "invoking"
    /\ LET run == NewRun([question |-> api.question])
       IN  /\ state' = run.state
           /\ pending' = run.pending
           /\ status' = run.status
           /\ exception' = run.exception
           /\ trace' = run.trace
           /\ calls' = run.calls
           /\ log' = run.log
    /\ served' = served + 1
    /\ api' = [api EXCEPT !.pc = "running"]
    /\ UNCHANGED <<_documents, startup, runs, _graph, dataDir, response, environ,
                   ssmCalls, loads, event, graphCalls, loader, feedback>>

\* dev: ainvoke returns the final state, or the run's exception reaches
\* except Exception
ApiLocalReturn ==
    /\ api.mode = "dev"
    /\ api.pc = "running"
    /\ status \in {"END", "raised"}
    /\ api' = IF status = "END"
              THEN [api EXCEPT !.pc = "result", !.result = state]
              ELSE [api EXCEPT !.pc = "responded",
                               !.response = [status_code |-> 500,
                                             detail |-> "Processing failed"]]
    /\ UNCHANGED <<_documents, startup, state, pending, status, exception, trace, calls,
                   log, served, runs, _graph, dataDir, response, environ, ssmCalls,
                   loads, event, graphCalls, loader, feedback>>

\* prod: the payload json.dumps({"question": ...}) is the handler's event
LambdaInvoked ==
    /\ api.mode = "prod"
    /\ api.pc = "invoking"
    /\ served = api.invoked
    /\ event' = [question |-> api.question]

ApiLambdaPing == LambdaInvoked /\ HandlerPing

ApiLambdaQuestion == LambdaInvoked /\ HandlerQuestion

ApiLambdaReturn == api.mode = "prod" /\ HandlerReturn

\* prod: result = json.loads(payload), the handler's return value as it is;
\* a handler that raised gives Lambda's error payload
ApiProxyReturn ==
    /\ api.mode = "prod"
    /\ api.pc = "invoking"
    /\ served = api.invoked + 1
    /\ status \in {"responded", "raised"}
    /\ api' = [api EXCEPT
                 !.pc = "result",
                 !.invoked = served,
                 !.result = IF status = "responded" THEN response
                            ELSE [errorMessage |-> exception, errorType |-> exception]]
    /\ UNCHANGED <<_documents, startup, state, pending, status, exception, trace, calls,
                   log, served, runs, _graph, dataDir, response, environ, ssmCalls,
                   loads, event, graphCalls, loader, feedback>>

\* the MessageResponse is built from result, the message is stored
\* best-effort, and the response is returned; any exception gives 500
ApiRespond ==
    /\ api.pc = "result"
    /\ \E ok \in BOOLEAN :
        LET built == MessageResponse(api.result)
            store == ~built.raised /\ api.messages_table_name # "" /\ ok
        IN  api' = [api EXCEPT !.pc = "responded",
                               !.response = built.response,
                               !.stored = IF store THEN @ + 1 ELSE @]
    /\ UNCHANGED <<_documents, startup, state, pending, status, exception, trace, calls,
                   log, served, runs, _graph, dataDir, response, environ, ssmCalls,
                   loads, event, graphCalls, loader, feedback>>

NextApi ==
    \/ ApiPost
    \/ ApiInvokeLocal
    \/ ApiLocalReturn
    \/ ApiLambdaPing
    \/ ApiLambdaQuestion
    \/ InjectDocuments
    \/ Classifier
    \/ Specialist
    \/ General
    \/ ApiLambdaReturn
    \/ ApiProxyReturn
    \/ ApiRespond

SpecApi == InitApi /\ [][NextApi]_vars

----------------------------------------------------------------------------
(* What a run did, read off its trace and its calls *)

SpecialistNames == (DOMAIN Specialists) \cup {"general"}

Happened(ev) == Contains(trace, ev)

\* ev happened, and some event of earlier happened before it
Before(earlier, ev) ==
    \A i \in 1..Len(trace) :
        trace[i] = ev => \E j \in 1..(i - 1) : trace[j] \in earlier

RanSpecialists == {n \in SpecialistNames : Happened(n \o ":enter")}

CallsOf(kind) == {i \in 1..Len(calls) : calls[i].api = kind}

ClassifyFailed == Happened("llm.classify:raise")

AnswerFailed == Happened("llm.complete:raise")

ResultKeys == {"category", "confidence", "answer", "source"}

\* the text of the error the failed answer call raised, as it was logged
LoggedErrors == {log[i].msg : i \in {k \in 1..Len(log) : log[k].level = "error"}}

ApologyOf(category) ==
    IF category = "general"
    THEN <<"Sorry", ", I ", "couldn't", " process your question right now. ",
           "Please try rephrasing or asking something more specific.">>
    ELSE <<"Sorry", ", I ", "couldn't", " retrieve ", TOPICS[category],
           " information right now. ", "Please try again.">>

----------------------------------------------------------------------------
(* Claims *)

\* C1: every run ends at END with category, confidence, answer and source
\* set, whatever the question and whether the two model calls succeed or
\* fail; no run stays in an intermediate stage and no exception escapes.
C1_RunReachesEnd ==
    /\ [](status # "raised")
    /\ [](status = "END" => ResultKeys \subseteq DOMAIN state)
    /\ [](status = "END" => RanSpecialists # {} /\ pending = {})
    /\ (status = "running" ~> status = "END")

C1_Witness ==
    /\ status = "END"
    /\ state.question = <<>>
    /\ ClassifyFailed
    /\ AnswerFailed
    /\ ResultKeys \subseteq DOMAIN state

\* C2: when the classification call fails, classify_question raises nothing
\* and returns category "general", confidence 0.0 and a current_context.
C2_ClassifierFallback ==
    ClassifyFailed =>
        /\ status # "raised"
        /\ Happened("classifier:exit")
        /\ state.category = "general"
        /\ state.confidence = 0
        /\ Has(state, "current_context")

C2_Witness ==
    /\ ClassifyFailed
    /\ ~Has(state, "answer")
    /\ state.category = "general"
    /\ state.confidence = 0
    /\ Keys(state.documents) # Keys(SampleDocuments)

\* C3: when an answerer's model call fails, its answer is the fixed apology
\* of its topic (non-empty, with "Sorry" and "couldn't"), without the
\* error's message, "Exception" or "Traceback", and nothing is raised.
C3_ApologyHidesError ==
    AnswerFailed =>
        /\ status = "END"
        /\ state.answer # <<>>
        /\ state.answer = ApologyOf(state.category)
        /\ Contains(state.answer, "Sorry")
        /\ Contains(state.answer, "couldn't")
        /\ ~Contains(state.answer, "Exception")
        /\ ~Contains(state.answer, "Traceback")
        /\ \A e \in ErrorTexts : ~IsInfix(e, state.answer)

C3_Witness ==
    /\ AnswerFailed
    /\ status = "END"
    /\ state.category = "chamonix"
    /\ \E m \in LoggedErrors : Contains(m, "Traceback")
    /\ state.answer = ApologyOf("chamonix")

\* C4: the specialist that runs is the one named by the category the
\* classifier returned, so the final category names the answerer.
C4_RoutedByCategory ==
    /\ \A n \in RanSpecialists : Has(state, "category") /\ n = state.category
    /\ status = "END" => RanSpecialists = {state.category}
    /\ \A i \in CallsOf("complete") : calls[i].node = state.category
    /\ \A n \in pending \cap SpecialistNames : n = state.category

C4_Witness ==
    /\ status = "END"
    /\ state.category = "annecy_geneva"
    /\ RanSpecialists = {"annecy_geneva"}

\* C5: the stages of a run are strictly ordered and never overlap: the
\* documents are injected before the classifier starts, the classifier is
\* over before a specialist starts, and no answer call is issued before the
\* classification call has returned or failed.
C5_StagesInOrder ==
    /\ Cardinality(pending) <= 1
    /\ Before({"inject_documents:exit"}, "classifier:enter")
    /\ \A n \in SpecialistNames : Before({"classifier:exit"}, n \o ":enter")
    /\ Before({"llm.classify:return", "llm.classify:raise"}, "llm.complete:call")
    /\ pending \cap SpecialistNames # {} => Happened("classifier:exit")
    /\ "classifier" \in pending => Happened("inject_documents:exit")

C5_Witness ==
    /\ status = "END"
    /\ Happened("llm.classify:raise")
    /\ Happened("llm.complete:call")
    /\ Happened("inject_documents:exit")

\* C6: a run issues exactly one classification call and exactly one answer
\* call, whether they succeed or fail; nothing is retried and no second
\* specialist runs.
C6_OneCallEach ==
    /\ Cardinality(CallsOf("classify")) <= 1
    /\ Cardinality(CallsOf("complete")) <= 1
    /\ Cardinality(RanSpecialists) <= 1
    /\ status = "END" =>
        /\ Cardinality(CallsOf("classify")) = 1
        /\ Cardinality(CallsOf("complete")) = 1
        /\ Len(calls) = 2
        /\ Cardinality(RanSpecialists) = 1

C6_Witness ==
    /\ status = "END"
    /\ ClassifyFailed
    /\ AnswerFailed
    /\ Len(calls) = 2

C8_SourceNoneIffGeneral ==
    status = "END" => (state.source = None <=> state.category = "general")

C8_Witness ==
    /\ status = "END"
    /\ state.category = "flight"
    /\ state.source # None
    /\ AnswerFailed

\* C9: for a non-general topic the source is the topic's document key
\* followed by ".txt", whether the answer call succeeded or failed.
C9_SourceIsDocumentFile ==
    (status = "END" /\ state.category # "general") =>
        state.source = CATEGORY_TO_DOCUMENT_KEY[state.category] \o ".txt"

C9_Witness ==
    /\ status = "END"
    /\ state.category = "routes"
    /\ state.source = "routes_to_aosta.txt"
    /\ AnswerFailed

\* C10: when the classifier returns a non-general topic whose document key
\* is in the document set, current_context is exactly that document's text,
\* and the routed specialist embeds that text in its prompt.
C10_ContextIsTopicDocument ==
    (/\ Happened("classifier:exit")
     /\ state.category # "general"
     /\ CATEGORY_TO_DOCUMENT_KEY[state.category] \in Keys(state.documents)) =>
        \E d \in Range(state.documents) :
            /\ d.name = CATEGORY_TO_DOCUMENT_KEY[state.category]
            /\ state.current_context = d.content
            /\ \A i \in CallsOf("complete") :
                  IsInfix(<<"Context:">> \o d.content \o <<"Question: ">> \o state.question,
                          calls[i].prompt)

C10_Witness ==
    /\ status = "END"
    /\ state.category = "aosta"
    /\ "aosta_valley" \in Keys(state.documents)
    /\ state.current_context = <<"text of aosta_valley", "more of aosta_valley">>
    /\ Cardinality(CallsOf("complete")) = 1

\* C11: when the classified non-general topic's document key is absent
\* from the document set, the context is the empty string, nothing is raised,
\* and the run goes on to that topic's specialist and completes.
C11_MissingDocumentFailsClosed ==
    (/\ Happened("classifier:exit")
     /\ state.category # "general"
     /\ CATEGORY_TO_DOCUMENT_KEY[state.category] \notin Keys(state.documents)) =>
        /\ state.current_context = <<>>
        /\ status \in {"running", "END"}
        /\ status = "running" => pending = {state.category}
        /\ status = "END" => RanSpecialists = {state.category} /\ Has(state, "answer")
        /\ \A i \in CallsOf("complete") :
              /\ calls[i].node = state.category
              /\ IsInfix(<<"Context:", "Question: ">> \o state.question, calls[i].prompt)

C11_Witness ==
    /\ status = "END"
    /\ state.category = "flight"
    /\ "flight" \notin Keys(state.documents)
    /\ state.current_context = <<>>
    /\ RanSpecialists = {"flight"}

RECURSIVE BlockStart(_, _)
\* where the block of document i starts in the joined context (1 is its first token)
BlockStart(documents, i) ==
    IF i = 1 THEN 1
    ELSE BlockStart(documents, i - 1) + 3 + Len(documents[i - 1].content) + 1

\* tokens of the joined context: per document a three-token delimiter and its
\* text, and one separator between two documents
ContextLen(documents) ==
    IF Len(documents) = 0 THEN 0
    ELSE BlockStart(documents, Len(documents)) + 2 + Len(documents[Len(documents)].content)

\* C12: for the general topic the context handed to the answer call holds
\* every document's text, each preceded by a delimiter naming its key, in the
\* document set's order, and nothing else: it is fixed by the document set.
C12_GeneralContextLayout ==
    \A c \in CallsOf("complete") :
        calls[c].node = "general" =>
            LET docs == state.documents
                prompt == calls[c].prompt
                n == Len(docs)
            IN  /\ Len(prompt) = 2 + ContextLen(docs) + 1 + Len(state.question) + 2
                /\ prompt[2 + ContextLen(docs) + 1] = "Question: "
                /\ \A i \in 1..n :
                      LET b == 2 + BlockStart(docs, i)
                          text == docs[i].content
                      IN  /\ prompt[b] = "=== "
                          /\ prompt[b + 1] = docs[i].name
                          /\ prompt[b + 2] = " ===\n"
                          /\ SubSeq(prompt, b + 3, b + 2 + Len(text)) = text
                          /\ i < n => prompt[b + 3 + Len(text)] = "\n\n"

C12_Witness ==
    /\ status = "END"
    /\ state.category = "general"
    /\ Len(state.documents) = 7
    /\ state.documents[1].name = "routes_to_aosta"
    /\ \E c \in CallsOf("complete") :
          IsInfix(<<"=== ", "notes", " ===\n", "\n\n", "=== ", "flight", " ===\n",
                    "text of flight">>, calls[c].prompt)

\* C13: the confidence in the result of every run lies within [0.0, 1.0],
\* after a successful classification and after the fallback alike.
C13_ConfidenceInRange ==
    /\ Happened("classifier:exit") => state.confidence >= 0 /\ state.confidence <= 100
    /\ status = "END" => state.confidence \in 0..100

C13_Witness ==
    /\ status = "END"
    /\ state.confidence = 95
    /\ Happened("llm.classify:return")

\* C14 as stated: a run ends with confidence 0.0 only when the classification
\* call failed, and then the category is "general".
C14_ZeroOnlyOnFallback ==
    (status = "END" /\ state.confidence = 0) =>
        ClassifyFailed /\ state.category = "general"

\* C14 amended: a failed classification call always ends with confidence 0.0
\* and category "general"; a run that ends with confidence 0.0 had its
\* classification call fail or had the model itself return confidence 0.0,
\* with whatever category the model chose.
C14_ZeroFromFallbackOrModel ==
    /\ ClassifyFailed => state.confidence = 0 /\ state.category = "general"
    /\ (status = "END" /\ state.confidence = 0 /\ ~ClassifyFailed) =>
          \E i \in CallsOf("classify") :
              /\ calls[i].response.kind = "value"
              /\ calls[i].response.confidence = 0
              /\ calls[i].response.category = state.category

C14_Witness ==
    /\ status = "END"
    /\ state.confidence = 0
    /\ ~ClassifyFailed
    /\ state.category = "flight"

\* C15 as stated: the answer in the result of every run is a non-empty string.
C15_AnswerNonEmpty ==
    status = "END" => state.answer # <<>>

\* C15 amended: the answer is always a string: after a failed answer call
\* the non-empty apology, after a successful one exactly the text the model
\* returned, which is empty when the model returns the empty string.
C15_AnswerIsApologyOrModelText ==
    status = "END" =>
        IF AnswerFailed
        THEN state.answer # <<>> /\ Contains(state.answer, "Sorry")
        ELSE \E i \in CallsOf("complete") :
                /\ calls[i].response.kind = "value"
                /\ calls[i].response.isStr
                /\ state.answer = calls[i].response.content

C15_Witness ==
    /\ status = "END"
    /\ ~AnswerFailed
    /\ state.answer = <<>>

\* C16: the category in the result of every run is never null and is one of
\* the seven topic identifiers; every run has such a result.
C16_CategoryIsTopic ==
    /\ status # "raised"
    /\ Happened("classifier:exit") => state.category \in TopicCategory
    /\ status = "END" =>
          /\ Has(state, "category")
          /\ state.category # None
          /\ state.category \in TopicCategory

C16_Witness ==
    /\ status = "END"
    /\ state.category = "car_rental"
    /\ Happened("llm.classify:return")

\* C17: with the responses of the two model calls fixed, runs of the
\* pipeline on the same question end with identical results, whatever ran
\* before or beside them; nothing carries over from one run to another.
C17_SameInputSameResult ==
    \A a \in Finished, b \in Finished :
        (runs[a].input = runs[b].input /\ runs[a].script = runs[b].script) =>
            /\ runs[a].run.status = "END"
            /\ runs[a].run.state = runs[b].run.state
            /\ runs[a].run.calls = runs[b].run.calls

C17_Witness ==
    /\ Finished = {1, 2}
    /\ runs[1].input = runs[2].input
    /\ runs[1].script = runs[2].script
    /\ runs[1].input = QuestionOnly(<<"What time is our flight?">>)
    /\ runs[1].run.state.category = "flight"
    /\ runs[2].run.state.answer = <<"Your flight departs at 10:00 AM">>

\* C18: for any interleaving of concurrent runs in one process, each run ends
\* as it would have ended alone with the same input and the same model
\* responses: the same result state, the same model calls, the same log.
C18_RunsAreIsolated ==
    \A id \in Finished :
        runs[id].run = RunAlone(runs[id].input, runs[id].script, startup)

C18_Witness ==
    /\ DOMAIN runs = {1, 2}
    /\ runs[2].run.status = "END"
    /\ runs[1].run.status = "running"
    /\ Contains(runs[1].run.trace, "classifier:exit")
    /\ runs[1].input # runs[2].input
    /\ runs[1].script # runs[2].script

\* C19: no stage changes the process-wide document set: after any sequence
\* or interleaving of requests it is what was loaded at startup, and the
\* documents in the state of every run past inject_documents are that set.
C19_DocumentsUnchanged ==
    /\ _documents = startup
    /\ \A id \in DOMAIN runs :
          Contains(runs[id].run.trace, "inject_documents:exit") =>
              runs[id].run.state.documents = startup

C19_Witness ==
    /\ Finished = {1, 2}
    /\ runs[1].input = SampleState(<<>>)
    /\ runs[1].input.documents # startup
    /\ runs[1].run.state.documents = startup
    /\ runs[2].run.state.documents = startup
    /\ runs[1].run.state.category = "flight"

\* C20: when the data directory is absent, document loading fails and the
\* service never answers through the pipeline: the graph is never built, no
\* run starts and no model call is issued, no 200 is returned, and every call
\* that reaches the import raises the load error to its caller.
C20_LoadFailureAnswersNothing ==
    ~dataDir.exists =>
        /\ _graph = None
        /\ _documents = <<>>
        /\ status \in {"idle", "responded", "raised"}
        /\ state = EmptyDict /\ pending = {}
        /\ trace = <<>> /\ calls = <<>>
        /\ response.statusCode \in {0, 400}
        /\ (served > 0 /\ question_of(event) # <<>>) =>
              /\ status = "raised"
              /\ exception \in {"FileNotFoundError", "ClientError"}
              /\ response = NoResponse
        /\ (status = "raised" /\ exception = "ClientError") => ssmCalls > 0
        /\ (status = "raised" /\ exception = "FileNotFoundError") => loads > 0
        /\ (served > 0 /\ question_of(event) # <<>> /\ ssmCalls = 0) =>
              exception = "FileNotFoundError"

C20_Witness ==
    /\ ~dataDir.exists
    /\ served = 2
    /\ loads = 2
    /\ question_of(event) = <<"What time is our flight?">>
    /\ status = "raised"
    /\ exception = "FileNotFoundError"

\* C25: on a successful classification the result's category and
\* confidence are exactly the values the model returned, for every pair the
\* schema accepts, a non-general category with very low confidence included.
C25_ClassificationPassedThrough ==
    Happened("llm.classify:return") =>
        \E i \in CallsOf("classify") :
            /\ calls[i].response.kind = "value"
            /\ state.category = calls[i].response.category
            /\ state.confidence = calls[i].response.confidence

C25_Witness ==
    /\ status = "END"
    /\ Happened("llm.classify:return")
    /\ state.category = "chamonix"
    /\ state.confidence = 0
    /\ RanSpecialists = {"chamonix"}

\* C26 as stated: after a run classified as general, current_context is the
\* concatenation of all documents, the context text the general answerer
\* embedded in its prompt.
C26_GeneralContextRecorded ==
    (status = "END" /\ state.category = "general") =>
        \A c \in CallsOf("complete") :
            IsInfix(<<"Available information:">> \o state.current_context
                        \o <<"Question: ">>, calls[c].prompt)

\* C26 amended: after a run classified as general, by the model or by the
\* fallback, the recorded current_context is the empty string; the
\* concatenation of the documents exists only in the general answerer's prompt.
C26_GeneralContextEmpty ==
    (Happened("classifier:exit") /\ state.category = "general") =>
        /\ state.current_context = <<>>
        /\ \A c \in CallsOf("complete") :
              /\ calls[c].node = "general"
              /\ \A d \in Range(state.documents) :
                    IsInfix(<<"=== ", d.name, " ===\n">> \o d.content, calls[c].prompt)

C26_Witness ==
    /\ status = "END"
    /\ state.category = "general"
    /\ ClassifyFailed
    /\ state.current_context = <<>>
    /\ \E c \in CallsOf("complete") :
          IsInfix(<<"=== ", "chamonix", " ===\n", "text of chamonix">>, calls[c].prompt)

\* the keys a step sets or changes
ChangedKeys == {k \in DOMAIN state' : k \notin DOMAIN state \/ state'[k] # state[k]}

\* node ran in this step
NodeRan(node) == ~Happened(node \o ":exit") /\ Contains(trace', node \o ":exit")

\* C27: each stage writes only its own fields: the classifier category,
\* confidence and current_context; a specialist answer and source, also when
\* its model call fails; no stage drops a field or touches the question.
C27_StagesWriteOwnFields ==
    [][status = "running" =>
        /\ DOMAIN state \subseteq DOMAIN state'
        /\ "question" \in DOMAIN state' /\ state'.question = state.question
        /\ NodeRan("classifier") =>
              /\ ChangedKeys \subseteq {"category", "confidence", "current_context"}
              /\ {"category", "confidence", "current_context"} \subseteq DOMAIN state'
        /\ \A n \in SpecialistNames :
              NodeRan(n) =>
                  /\ ChangedKeys \subseteq {"answer", "source"}
                  /\ {"answer", "source"} \subseteq DOMAIN state']_vars

C27_Witness ==
    /\ status = "END"
    /\ AnswerFailed
    /\ state.category = "annecy_geneva"
    /\ state.confidence = 50
    /\ state.current_context = <<"text of annecy_geneva", "more of annecy_geneva">>
    /\ state.question = <<"What time is our flight?">>
    /\ state.answer = ApologyOf("annecy_geneva")

\* the classification prompt as a text around the question alone
PromptAround(question) ==
    <<"Classify the following question about a family trip to the French/Italian Alps.",
      "Available categories:",
      "- flight: Questions about flight details (times, airline, etc.)",
      "- car_rental: Questions about car rental pickup, location, details",
      "- routes: Questions about driving routes to destinations",
      "- aosta: Questions about Aosta Valley itinerary (July 8-11)",
      "- chamonix: Questions about Chamonix itinerary (July 12-16)",
      "- annecy_geneva: Questions about Annecy/Geneva itinerary (July 16-20)",
      "- general: Unclear questions or general trip questions",
      "Question: ">>
        \o question
        \o <<"Classify this question and provide a confidence score (0.0-1.0).">>

\* C28: the classification prompt is fixed by the question: whatever the
\* document set of the process, the classification call of a run is the same
\* text around the run's question.
C28_ClassifyPromptFromQuestionOnly ==
    \A i \in CallsOf("classify") : calls[i].prompt = PromptAround(state.question)

C28_Witness ==
    /\ status = "END"
    /\ CallsOf("classify") # {}
    /\ "flight" \notin Keys(state.documents)
    /\ state.documents[1].name = "routes_to_aosta"
    /\ state.question = <<"What time is our flight?">>
    /\ state.category = "flight"

\* C21: in one process the documents are loaded and the graph is built
\* once, before the first pipeline run; once _get_graph has succeeded, every
\* later call keeps the cached graph and neither reloads the documents, nor
\* imports the graph again, nor contacts SSM again.
C21_GraphBuiltOnce ==
    /\ [](_graph # None => loads = 1 /\ _documents = startup)
    /\ [](status \in {"running", "END"} => _graph # None /\ loads = 1)
    /\ [][_graph # None =>
            /\ _graph' = _graph
            /\ loads' = loads
            /\ ssmCalls' = ssmCalls
            /\ environ' = environ
            /\ _documents' = _documents]_vars

C21_Witness ==
    /\ served = 2
    /\ graphCalls = 2
    /\ loads = 1
    /\ ssmCalls = 1
    /\ _graph = "graph"
    /\ status = "END"

\* a question that is empty after trimming whitespace
IsBlank(question) == \A i \in 1..Len(question) : question[i] \in {" ", "\t", "\n"}

\* C23, for the agent's handler: a call whose question is missing, empty or
\* empty after trimming whitespace is answered 400 before the graph is
\* initialized, and never reaches the graph or a model call.
C23_BlankQuestionRejected ==
    (served > 0 /\ IsBlank(question_of(event))) =>
        /\ status = "responded"
        /\ response.statusCode = 400
        /\ trace = <<>>
        /\ calls = <<>>

\* C30 as stated: a call with the ping sentinel initializes the graph, never
\* invokes it, issues no model call and returns 200 with the pong body,
\* whatever state the graph cache was in.
C30_PingAlwaysPong ==
    (served > 0 /\ question_of(event) = <<"__ping__">>) =>
        /\ status = "responded"
        /\ _graph # None
        /\ trace = <<>> /\ calls = <<>>
        /\ response = [statusCode |-> 200,
                       body |-> [answer |-> <<"pong">>, category |-> "ping",
                                 confidence |-> 100, source |-> None]]

\* C30 amended: a call with the ping sentinel never invokes the graph and
\* issues no model call; it goes through _get_graph and, when that succeeds
\* (graph already cached, or the cold start's key fetch and import succeed),
\* returns 200 with the pong body; when the cold start fails, its error is
\* raised and nothing is returned.
C30_PingNeverInvokes ==
    (served > 0 /\ question_of(event) = <<"__ping__">>) =>
        /\ graphCalls > 0
        /\ state = EmptyDict /\ pending = {}
        /\ trace = <<>> /\ calls = <<>>
        /\ status \in {"responded", "raised"}
        /\ status = "responded" =>
              /\ _graph # None
              /\ response = [statusCode |-> 200,
                             body |-> [answer |-> <<"pong">>, category |-> "ping",
                                       confidence |-> 100, source |-> None]]
        /\ status = "raised" =>
              /\ _graph = None
              /\ response = NoResponse
              /\ \/ exception = "ClientError" /\ ssmCalls > 0
                 \/ exception = "FileNotFoundError" /\ ~dataDir.exists
                 \/ exception = "UnicodeDecodeError" /\ FaultyFiles(dataDir) # {}
        /\ (dataDir.exists /\ FaultyFiles(dataDir) = {} /\ ssmCalls = 0) =>
              status = "responded"

C30_Witness ==
    /\ served = 2
    /\ graphCalls = 2
    /\ loads = 1
    /\ question_of(event) = <<"__ping__">>
    /\ status = "responded"
    /\ response.statusCode = 200
    /\ response.body.category = "ping"

\* C22: document loading is all-or-nothing: when the data directory is
\* absent or a .txt file cannot be read, load_documents raises and hands no
\* mapping to its caller; when it returns, the mapping has one entry for
\* every .txt file of the directory, each with the file's text.
C22_LoadAllOrNothing ==
    /\ loader.pc = "raised" =>
          /\ ~loader.returned /\ loader.result = <<>>
          /\ \/ ~dataDir.exists /\ loader.exception = "FileNotFoundError"
             \/ FaultyFiles(dataDir) # {} /\ loader.exception \in ReadErrors
    /\ (~dataDir.exists \/ FaultyFiles(dataDir) # {}) =>
          ~loader.returned /\ loader.pc # "returned"
    /\ loader.returned =>
          /\ loader.pc = "returned"
          /\ Len(loader.result) = Len(dataDir.files)
          /\ Keys(loader.result) = Range(dataDir.files)
          /\ \A d \in Range(loader.result) : d.content = FileText(d.name)
    /\ ~loader.returned => loader.result = <<>>

C22_Witness ==
    /\ loader.pc = "raised"
    /\ loader.exception = "UnicodeDecodeError"
    /\ Len(loader.documents) = 3
    /\ Len(dataDir.files) = 7
    /\ ~loader.returned

\* C29: in the feedback endpoint an email is attempted only for an item
\* that has been stored, and only when the rating is "down", the comment is
\* non-empty and a feedback address is configured; when storing fails the
\* endpoint answers 500 and no email is attempted for that request.
C29_EmailOnlyAfterStore ==
    /\ \A i \in 1..Len(feedback.emails) :
          LET mail == feedback.emails[i]
          IN  /\ \E j \in 1..Len(feedback.stored) : feedback.stored[j] = mail.item
              /\ mail.item.rating = "down"
              /\ mail.item.comment # <<>>
              /\ feedback.settings.feedback_email # ""
              /\ mail.to = feedback.settings.feedback_email
    /\ feedback.pc \in {"lookup", "store"} =>
          \A i \in 1..Len(feedback.emails) : feedback.emails[i].item.id # feedback.requests
    /\ feedback.response.status_code = 500 =>
          /\ feedback.pc = "responded"
          /\ \A i \in 1..Len(feedback.emails) :
                feedback.emails[i].item.id # feedback.requests
          /\ \A j \in 1..Len(feedback.stored) :
                feedback.stored[j].id # feedback.requests

C29_Witness ==
    /\ feedback.requests = 2
    /\ feedback.pc = "responded"
    /\ feedback.response.status_code = 500
    /\ Len(feedback.emails) = 1
    /\ feedback.emails[1].item.id = 1
    /\ feedback.request.rating = "down"
    /\ Truthy(feedback.request.comment)

\* C24: the dictionary AgentLambdaProxy.ainvoke hands to the /messages route
\* carries the answer, category, confidence and source of the pipeline run
\* behind it, exactly as a direct ainvoke of the local graph does, and the
\* route answers 200 with these four values.
C24_RemoteSameAsDirect ==
    /\ (api.pc = "result" /\ Has(state, "answer")) =>
          /\ Has(api.result, "answer") /\ api.result.answer = state.answer
          /\ Has(api.result, "category") /\ api.result.category = state.category
          /\ Has(api.result, "confidence") /\ api.result.confidence = state.confidence
          /\ result_get(api.result, "source", None) = result_get(state, "source", None)
    /\ (api.pc = "responded" /\ api.result # EmptyDict /\ Has(state, "answer")) =>
          /\ api.response.status_code = 200
          /\ api.response.answer = state.answer
          /\ api.response.category = state.category
          /\ api.response.confidence = state.confidence
          /\ api.response.source = result_get(state, "source", None)

====
